---- MODULE Spec2Model ----
(***************************************************************************)
(* Beach Buddy scoring core: the BeachScore engine                         *)
(* (src/lib/scoring/beach-score.ts, src/lib/scoring/weights.ts) and the    *)
(* time window generator (src/lib/scoring/windows.ts).                     *)
(* With them getScoreRange (weights.ts) and the localStorage wrapper       *)
(* (src/lib/utils/storage.ts).                                             *)
(*                                                                         *)
(* Dates are their getTime() value in milliseconds.  An optional value     *)
(* (windGust, sunrise, sunset, preferences, a field of the options) is the *)
(* empty tuple when absent and a one-element tuple when present.  A        *)
(* weatherCode is the tuple of its characters.  Weights are kept in        *)
(* hundredths, and a sub-score is a fraction [num, den], so that the       *)
(* weighted total is computed exactly before Math.round.                   *)
(*                                                                         *)
(* defaultWeights is the content of the module-level DEFAULT_WEIGHTS       *)
(* object, which every call reads; calls is the log of the calls of        *)
(* calculateBeachScore made in a session, each with its returned value.    *)
(* localStorage is the browser's store: a function from the keys that are  *)
(* set to their items (src/lib/utils/storage.ts).                          *)
(***************************************************************************)
EXTENDS Integers, Sequences, FiniteSets, TLC

VARIABLES conditions, options, now, result, pc, defaultWeights, calls, localStorage

vars == <<conditions, options, now, result, pc, defaultWeights, calls, localStorage>>

-----------------------------------------------------------------------------
(* Optional values and small helpers                                       *)

Absent == <<>>

Some(v) == <<v>>

Present(x) == x # <<>>

Get(x) == x[1]

Min(a, b) == IF a < b THEN a ELSE b

Max(a, b) == IF a > b THEN a ELSE b

Abs(a) == IF a < 0 THEN 0 - a ELSE a

startsWith(code, prefix) ==
    /\ Len(code) >= Len(prefix)
    /\ SubSeq(code, 1, Len(prefix)) = prefix

\* Math.round of the non-negative fraction n/d (d > 0): halves round up.
MathRound(n, d) == (2 * n + d) \div (2 * d)

\* The score that is not a number.  A fraction [num, den] with den = 0 is
\* NaN (it arises only as 0/0); a rounded score, never negative otherwise,
\* is NaN when it is this value.  Every comparison with NaN is false.
NaN == 0 - 1

-----------------------------------------------------------------------------
(* weights.ts                                                              *)

\* DEFAULT_WEIGHTS as the module is loaded, in hundredths
DEFAULT_WEIGHTS == [temp |-> 30, uv |-> 25, wind |-> 25, tide |-> 10, weather |-> 10]

TEMP_THRESHOLDS ==
    [optimal    |-> [min |-> 80, max |-> 90],
     good       |-> [min |-> 75, max |-> 95],
     acceptable |-> [min |-> 70, max |-> 98],
     poor       |-> [min |-> 65, max |-> 100]]

UV_THRESHOLDS == [low |-> 2, moderate |-> 5, high |-> 7, veryHigh |-> 10, extreme |-> 11]

WIND_THRESHOLDS ==
    [calm |-> 5, light |-> 10, moderate |-> 15, fresh |-> 20, strong |-> 25, veryStrong |-> 30]

\* WEATHER_SCORES: the table is keyed by the whole icon code
WEATHER_SCORES(code) ==
    CASE code \in {<<"0", "1", "d">>, <<"0", "1", "n">>} -> 100
      [] code \in {<<"0", "2", "d">>, <<"0", "2", "n">>} -> 90
      [] code \in {<<"0", "3", "d">>, <<"0", "3", "n">>} -> 80
      [] code \in {<<"0", "4", "d">>, <<"0", "4", "n">>} -> 70
      [] code \in {<<"0", "9", "d">>, <<"0", "9", "n">>} -> 30
      [] code \in {<<"1", "0", "d">>, <<"1", "0", "n">>} -> 20
      [] code \in {<<"1", "1", "d">>, <<"1", "1", "n">>} -> 10
      [] code \in {<<"1", "3", "d">>, <<"1", "3", "n">>} -> 40
      [] code \in {<<"5", "0", "d">>, <<"5", "0", "n">>} -> 60
      [] OTHER -> 0

-----------------------------------------------------------------------------
(* beach-score.ts: sub-scores                                              *)

Whole(n) == [num |-> n, den |-> 1]

\* Mutant: every band, the preferred range included, excludes its limits
calculateTempScoreExclusive(feelsLike, preferences) ==
    LET effectiveTemp == feelsLike
    IN  IF Present(preferences) /\ Present(Get(preferences).tempRange)
        THEN LET min == Get(Get(preferences).tempRange).min
                 max == Get(Get(preferences).tempRange).max
                 range == max - min
             IN  IF effectiveTemp > min /\ effectiveTemp < max
                 THEN [num |-> 100 * range - 20 * Abs(2 * effectiveTemp - (min + max)),
                       den |-> range]
                 ELSE IF effectiveTemp < min
                 THEN Whole(Max(0, 80 - (min - effectiveTemp) * 10))
                 ELSE Whole(Max(0, 80 - (effectiveTemp - max) * 10))
        ELSE IF effectiveTemp > TEMP_THRESHOLDS.optimal.min
                /\ effectiveTemp < TEMP_THRESHOLDS.optimal.max
        THEN Whole(100)
        ELSE IF effectiveTemp > TEMP_THRESHOLDS.good.min
                /\ effectiveTemp < TEMP_THRESHOLDS.good.max
        THEN IF effectiveTemp < TEMP_THRESHOLDS.optimal.min
             THEN Whole(100 - (TEMP_THRESHOLDS.optimal.min - effectiveTemp) * 2)
             ELSE Whole(100 - (effectiveTemp - TEMP_THRESHOLDS.optimal.max) * 2)
        ELSE IF effectiveTemp > TEMP_THRESHOLDS.acceptable.min
                /\ effectiveTemp < TEMP_THRESHOLDS.acceptable.max
        THEN Whole(70)
        ELSE IF effectiveTemp > TEMP_THRESHOLDS.poor.min
                /\ effectiveTemp < TEMP_THRESHOLDS.poor.max
        THEN Whole(40)
        ELSE Whole(20)

\* calculateTempScore(temp, feelsLike, preferences); temp is not read.
\* With a tempRange the result is 100 - (|t - mid| / (range / 2)) * 20
\* = (100 * range - 20 * |2t - (min + max)|) / range; with min = max the
\* division is 0 / 0 and the result is NaN, here the fraction 0 / 0.
calculateTempScore(feelsLike, preferences) ==
    LET effectiveTemp == feelsLike
    IN  IF Present(preferences) /\ Present(Get(preferences).tempRange)
        THEN LET min == Get(Get(preferences).tempRange).min
                 max == Get(Get(preferences).tempRange).max
                 range == max - min
             IN  IF effectiveTemp >= min /\ effectiveTemp <= max
                 THEN [num |-> 100 * range - 20 * Abs(2 * effectiveTemp - (min + max)),
                       den |-> range]
                 ELSE IF effectiveTemp < min
                 THEN Whole(Max(0, 80 - (min - effectiveTemp) * 10))
                 ELSE Whole(Max(0, 80 - (effectiveTemp - max) * 10))
        ELSE IF effectiveTemp >= TEMP_THRESHOLDS.optimal.min
                /\ effectiveTemp <= TEMP_THRESHOLDS.optimal.max
        THEN Whole(100)
        ELSE IF effectiveTemp >= TEMP_THRESHOLDS.good.min
                /\ effectiveTemp <= TEMP_THRESHOLDS.good.max
        THEN IF effectiveTemp < TEMP_THRESHOLDS.optimal.min
             THEN Whole(100 - (TEMP_THRESHOLDS.optimal.min - effectiveTemp) * 2)
             ELSE Whole(100 - (effectiveTemp - TEMP_THRESHOLDS.optimal.max) * 2)
        ELSE IF effectiveTemp >= TEMP_THRESHOLDS.acceptable.min
                /\ effectiveTemp <= TEMP_THRESHOLDS.acceptable.max
        THEN Whole(70)
        ELSE IF effectiveTemp >= TEMP_THRESHOLDS.poor.min
                /\ effectiveTemp <= TEMP_THRESHOLDS.poor.max
        THEN Whole(40)
        ELSE Whole(20)

\* Mutant: the band limits are exclusive
calculateUVScoreExclusive(uvIndex) ==
    IF uvIndex < UV_THRESHOLDS.low THEN 100
    ELSE IF uvIndex < UV_THRESHOLDS.moderate THEN 80
    ELSE IF uvIndex < UV_THRESHOLDS.high THEN 60
    ELSE IF uvIndex < UV_THRESHOLDS.veryHigh THEN 40
    ELSE 20

calculateUVScore(uvIndex) ==
    IF uvIndex <= UV_THRESHOLDS.low THEN 100
    ELSE IF uvIndex <= UV_THRESHOLDS.moderate THEN 80
    ELSE IF uvIndex <= UV_THRESHOLDS.high THEN 60
    ELSE IF uvIndex <= UV_THRESHOLDS.veryHigh THEN 40
    ELSE 20

\* Mutant: the gust is not looked at
calculateWindScoreSustained(windSpeed, windGust, preferences) ==
    IF windSpeed > WIND_THRESHOLDS.strong THEN 20
    ELSE IF windSpeed < WIND_THRESHOLDS.calm THEN 100
    ELSE IF windSpeed < WIND_THRESHOLDS.light THEN 90
    ELSE IF windSpeed < WIND_THRESHOLDS.moderate THEN 70
    ELSE IF windSpeed < WIND_THRESHOLDS.fresh THEN 50
    ELSE IF windSpeed < WIND_THRESHOLDS.strong THEN 30
    ELSE 20

\* calculateWindScore(windSpeed, windGust?, preferences?): an absent or zero
\* gust, and an absent or zero windTolerance, are falsy.
calculateWindScore(windSpeed, windGust, preferences) ==
    LET effectiveWind ==
            IF Present(windGust) /\ Get(windGust) # 0 /\ Get(windGust) > windSpeed + 5
            THEN Get(windGust) ELSE windSpeed
        tolerance ==
            IF Present(preferences) /\ Present(Get(preferences).windTolerance)
            THEN Get(Get(preferences).windTolerance) ELSE 0
        maxTolerable == IF tolerance # 0 THEN tolerance ELSE WIND_THRESHOLDS.strong
    IN  IF effectiveWind > maxTolerable THEN 20
        ELSE IF effectiveWind < WIND_THRESHOLDS.calm THEN 100
        ELSE IF effectiveWind < WIND_THRESHOLDS.light THEN 90
        ELSE IF effectiveWind < WIND_THRESHOLDS.moderate THEN 70
        ELSE IF effectiveWind < WIND_THRESHOLDS.fresh THEN 50
        ELSE IF effectiveWind < WIND_THRESHOLDS.strong THEN 30
        ELSE 20

calculateTideScore(tideType) ==
    CASE tideType = "slack" -> 100
      [] tideType = "low" -> 90
      [] tideType \in {"rising", "falling"} -> 80
      [] tideType = "high" -> 70
      [] OTHER -> 80

\* WEATHER_SCORES[weatherCode] || 50: a missing entry is undefined, falsy
\* Mutant: the cloud penalty starts at 75 percent
calculateWeatherScoreCloudAt75(weatherCode, cloudCover) ==
    LET found == WEATHER_SCORES(weatherCode)
        baseScore == IF found # 0 THEN found ELSE 50
    IN  IF cloudCover >= 75 /\ baseScore > 70 THEN baseScore - 10 ELSE baseScore

calculateWeatherScore(weatherCode, cloudCover) ==
    LET found == WEATHER_SCORES(weatherCode)
        baseScore == IF found # 0 THEN found ELSE 50
    IN  IF cloudCover > 75 /\ baseScore > 70 THEN baseScore - 10 ELSE baseScore

-----------------------------------------------------------------------------
(* beach-score.ts: badges, weights, calculateBeachScore                    *)

Badge(id, type) == [id |-> id, type |-> type]

\* Mutant: the two UV warnings are tested independently of each other
generateBadgesEveryUV(snapshot, breakdown) ==
    LET t == breakdown.tempScore
        tempBadge ==
            IF t.den # 0 /\ t.num >= 90 * t.den THEN <<Badge("temp-perfect", "positive")>>
            ELSE IF t.den # 0 /\ t.num < 50 * t.den
            THEN IF snapshot.feelsLike < 70
                 THEN <<Badge("temp-cold", "warning")>>
                 ELSE <<Badge("temp-hot", "warning")>>
            ELSE <<>>
        uvBadge ==
            IF snapshot.uvIndex <= 2 THEN <<Badge("uv-low", "positive")>>
            ELSE (IF snapshot.uvIndex >= 8 THEN <<Badge("uv-high", "warning")>> ELSE <<>>)
                 \o (IF snapshot.uvIndex >= 6 THEN <<Badge("uv-moderate", "neutral")>> ELSE <<>>)
        windBadge ==
            IF snapshot.windSpeed < 5 THEN <<Badge("wind-calm", "positive")>>
            ELSE IF snapshot.windSpeed >= 15 THEN <<Badge("wind-strong", "warning")>>
            ELSE <<>>
        tideBadge ==
            IF snapshot.tideType = "slack" \/ snapshot.tideType = "low"
            THEN <<Badge("tide-good", "positive")>>
            ELSE <<>>
        weatherBadge ==
            IF startsWith(snapshot.weatherCode, <<"0", "1">>)
               \/ startsWith(snapshot.weatherCode, <<"0", "2">>)
            THEN <<Badge("weather-clear", "positive")>>
            ELSE IF startsWith(snapshot.weatherCode, <<"0", "9">>)
                    \/ startsWith(snapshot.weatherCode, <<"1", "0">>)
            THEN <<Badge("weather-rain", "negative")>>
            ELSE IF startsWith(snapshot.weatherCode, <<"1", "1">>)
            THEN <<Badge("weather-storm", "negative")>>
            ELSE <<>>
    IN  tempBadge \o uvBadge \o windBadge \o tideBadge \o weatherBadge

\* generateBadges(conditions, breakdown): one IF chain per category, in the
\* order temperature, UV, wind, tide, weather.
generateBadges(snapshot, breakdown) ==
    LET t == breakdown.tempScore
        tempBadge ==
            IF t.den # 0 /\ t.num >= 90 * t.den THEN <<Badge("temp-perfect", "positive")>>
            ELSE IF t.den # 0 /\ t.num < 50 * t.den
            THEN IF snapshot.feelsLike < 70
                 THEN <<Badge("temp-cold", "warning")>>
                 ELSE <<Badge("temp-hot", "warning")>>
            ELSE <<>>
        uvBadge ==
            IF snapshot.uvIndex <= 2 THEN <<Badge("uv-low", "positive")>>
            ELSE IF snapshot.uvIndex >= 8 THEN <<Badge("uv-high", "warning")>>
            ELSE IF snapshot.uvIndex >= 6 THEN <<Badge("uv-moderate", "neutral")>>
            ELSE <<>>
        windBadge ==
            IF snapshot.windSpeed < 5 THEN <<Badge("wind-calm", "positive")>>
            ELSE IF snapshot.windSpeed >= 15 THEN <<Badge("wind-strong", "warning")>>
            ELSE <<>>
        tideBadge ==
            IF snapshot.tideType = "slack" \/ snapshot.tideType = "low"
            THEN <<Badge("tide-good", "positive")>>
            ELSE <<>>
        weatherBadge ==
            IF startsWith(snapshot.weatherCode, <<"0", "1">>)
               \/ startsWith(snapshot.weatherCode, <<"0", "2">>)
            THEN <<Badge("weather-clear", "positive")>>
            ELSE IF startsWith(snapshot.weatherCode, <<"0", "9">>)
                    \/ startsWith(snapshot.weatherCode, <<"1", "0">>)
            THEN <<Badge("weather-rain", "negative")>>
            ELSE IF startsWith(snapshot.weatherCode, <<"1", "1">>)
            THEN <<Badge("weather-storm", "negative")>>
            ELSE <<>>
    IN  tempBadge \o uvBadge \o windBadge \o tideBadge \o weatherBadge

\* A weight set is five numerators over the common denominator den.
WeightSet(w, den) ==
    [temp |-> w.temp, uv |-> w.uv, wind |-> w.wind, tide |-> w.tide,
     weather |-> w.weather, den |-> den]

\* Mutant: the adjusted weights are returned without the division by their sum
customizeWeightsRaw(prefs) ==
    LET goals == IF Present(prefs.activityGoals) THEN Get(prefs.activityGoals) ELSE {}
        w0 == defaultWeights
        w1 == IF "photography" \in goals
              THEN [w0 EXCEPT !.weather = 20, !.uv = 15] ELSE w0
        w2 == IF "swim" \in goals
              THEN [w1 EXCEPT !.tide = 15, !.temp = 35, !.wind = 20] ELSE w1
    IN  WeightSet(w2, 100)

\* customizeWeights(preferences): copy DEFAULT_WEIGHTS, adjust per activity
\* goal, then divide each weight by the sum of the five.
customizeWeights(prefs) ==
    LET goals == IF Present(prefs.activityGoals) THEN Get(prefs.activityGoals) ELSE {}
        w0 == defaultWeights
        w1 == IF "photography" \in goals
              THEN [w0 EXCEPT !.weather = 20, !.uv = 15] ELSE w0
        w2 == IF "swim" \in goals
              THEN [w1 EXCEPT !.tide = 15, !.temp = 35, !.wind = 20] ELSE w1
        sum == w2.temp + w2.uv + w2.wind + w2.tide + w2.weather
    IN  WeightSet(w2, sum)

\* Mutant: the weighted sum is truncated instead of rounded
weightedTotalFloor(tempScore, uvScore, windScore, tideScore, weatherScore, weights) ==
    IF tempScore.den = 0 THEN NaN
    ELSE (tempScore.num * weights.temp
            + tempScore.den * (uvScore * weights.uv + windScore * weights.wind
                               + tideScore * weights.tide
                               + weatherScore * weights.weather))
         \div (tempScore.den * weights.den)

\* Math.round(tempScore * w.temp + ... + weatherScore * w.weather)
weightedTotal(tempScore, uvScore, windScore, tideScore, weatherScore, weights) ==
    IF tempScore.den = 0 THEN NaN
    ELSE
    MathRound(tempScore.num * weights.temp
                + tempScore.den * (uvScore * weights.uv + windScore * weights.wind
                                   + tideScore * weights.tide
                                   + weatherScore * weights.weather),
              tempScore.den * weights.den)

\* Mutant: customizeWeights adjusts DEFAULT_WEIGHTS itself before copying it
weightsAfterScoreInPlace(preferences) ==
    IF Present(preferences)
    THEN LET adjusted == customizeWeightsRaw(Get(preferences))
         IN  [temp |-> adjusted.temp, uv |-> adjusted.uv, wind |-> adjusted.wind,
              tide |-> adjusted.tide, weather |-> adjusted.weather]
    ELSE defaultWeights

\* DEFAULT_WEIGHTS after calculateBeachScore(conditions, preferences): without
\* preferences the object is only read; with them customizeWeights assigns
\* to its own copy { ...DEFAULT_WEIGHTS } and never to the object.
weightsAfterScore(preferences) == defaultWeights

\* Mutant: the id keeps only the hour of the timestamp
windowIdByHour(timestamp) == <<"window-", timestamp \div (60 * 60 * 1000)>>

\* The id `window-${timestamp.getTime()}`
windowId(timestamp) == <<"window-", timestamp>>

\* 3 * 60 * 60 * 1000, the engine's fixed window length
DefaultWindowMs == 3 * 60 * 60 * 1000

\* calculateBeachScore(conditions, preferences?): windSpeed and windGust are
\* the only arguments given to calculateWindScore.
calculateBeachScore(snapshot, preferences) ==
    LET weights == IF Present(preferences)
                   THEN customizeWeights(Get(preferences))
                   ELSE WeightSet(defaultWeights, 100)
        tempScore == calculateTempScore(snapshot.feelsLike, preferences)
        uvScore == calculateUVScore(snapshot.uvIndex)
        windScore == calculateWindScore(snapshot.windSpeed, snapshot.windGust, Absent)
        tideScore == calculateTideScore(snapshot.tideType)
        weatherScore == calculateWeatherScore(snapshot.weatherCode, snapshot.cloudCover)
        totalScore == weightedTotal(tempScore, uvScore, windScore, tideScore,
                                    weatherScore, weights)
        scoreBreakdown ==
            [tempScore |-> tempScore, uvScore |-> uvScore, windScore |-> windScore,
             tideScore |-> tideScore, weatherScore |-> weatherScore,
             totalScore |-> totalScore, weights |-> weights]
    IN  [window |->
            [id |-> windowId(snapshot.timestamp),
             startTime |-> snapshot.timestamp,
             endTime |-> snapshot.timestamp + DefaultWindowMs,
             score |-> totalScore,
             badges |-> generateBadges(snapshot, scoreBreakdown),
             conditions |-> snapshot,
             isGoNow |-> FALSE],
         scoreBreakdown |-> scoreBreakdown]

-----------------------------------------------------------------------------
(* windows.ts: generateWindows                                             *)

HourMs == 60 * 60 * 1000

\* DEFAULT_OPTIONS
DEFAULT_OPTIONS == [duration |-> 3, count |-> 16, preferences |-> Absent]

\* { ...DEFAULT_OPTIONS, ...options }: a field the caller gives wins
mergeOptions(opts) ==
    [duration |-> IF Present(opts.duration) THEN Get(opts.duration)
                  ELSE DEFAULT_OPTIONS.duration,
     count |-> IF Present(opts.count) THEN Get(opts.count) ELSE DEFAULT_OPTIONS.count,
     preferences |-> IF Present(opts.preferences) THEN opts.preferences
                     ELSE DEFAULT_OPTIONS.preferences]

\* Mutant: a snapshot at the call instant is skipped as well
isPastOrNow(snapshot, currentTime) == snapshot.timestamp <= currentTime

\* if (snapshot.timestamp < now) continue
isPast(snapshot, currentTime) == snapshot.timestamp < currentTime

\* Mutant: a window that only touches the night is nighttime
isNighttimeOverlap(snapshot, duration) ==
    /\ Present(snapshot.sunrise)
    /\ Present(snapshot.sunset)
    /\ LET windowStart == snapshot.timestamp
           windowEnd == windowStart + duration * HourMs
       IN  windowEnd >= Get(snapshot.sunset) \/ windowStart <= Get(snapshot.sunrise)

\* Mutant: each bound is tested as soon as it is present
isNighttimeEitherBound(snapshot, duration) ==
    LET windowStart == snapshot.timestamp
        windowEnd == windowStart + duration * HourMs
    IN  \/ Present(snapshot.sunset) /\ windowStart >= Get(snapshot.sunset)
        \/ Present(snapshot.sunrise) /\ windowEnd <= Get(snapshot.sunrise)

\* windowStart >= sunsetTime || windowEnd <= sunriseTime, read only when the
\* snapshot has both sunrise and sunset
isNighttime(snapshot, duration) ==
    /\ Present(snapshot.sunrise)
    /\ Present(snapshot.sunset)
    /\ LET windowStart == snapshot.timestamp
           windowEnd == windowStart + duration * HourMs
       IN  windowStart >= Get(snapshot.sunset) \/ windowEnd <= Get(snapshot.sunrise)

\* Mutant: the score is set to 30 instead of capped
suppressNighttimeFlat(window) ==
    [window EXCEPT !.badges = Append(@, Badge("nighttime", "negative")),
                   !.score = 30]

\* The nighttime branch: push the badge, then Math.min(score, 30)
suppressNighttime(window) ==
    [window EXCEPT !.badges = Append(@, Badge("nighttime", "negative")),
                   !.score = IF @ = NaN THEN NaN ELSE Min(@, 30)]

\* One pass of the loop body for a snapshot that is not skipped
scoreWindow(snapshot, opts) ==
    LET scored == calculateBeachScore(snapshot, opts.preferences)
        marked == IF isNighttime(snapshot, opts.duration)
                  THEN suppressNighttime(scored.window)
                  ELSE scored.window
    IN  [marked EXCEPT !.endTime = marked.startTime + opts.duration * HourMs]

\* The for loop over conditions[0 .. min(count, length) - 1]
RECURSIVE collectFrom(_, _, _, _)
collectFrom(i, snapshots, opts, currentTime) ==
    IF i > Min(opts.count, Len(snapshots)) THEN <<>>
    ELSE IF isPast(snapshots[i], currentTime)
    THEN collectFrom(i + 1, snapshots, opts, currentTime)
    ELSE <<scoreWindow(snapshots[i], opts)>>
         \o collectFrom(i + 1, snapshots, opts, currentTime)

collectWindows(snapshots, opts, currentTime) == collectFrom(1, snapshots, opts, currentTime)

\* Array.prototype.sort is stable and orders by the comparator's sign; both
\* comparators here are differences of a numeric key, so an element goes
\* after every element whose key is not greater than its own.
RECURSIVE insertByKey(_, _)
insertByKey(e, sorted) ==
    IF sorted = <<>> THEN <<e>>
    ELSE IF e.key < Head(sorted).key THEN <<e>> \o sorted
    ELSE <<Head(sorted)>> \o insertByKey(e, Tail(sorted))

RECURSIVE sortByKey(_)
sortByKey(es) ==
    IF es = <<>> THEN <<>>
    ELSE insertByKey(es[Len(es)], sortByKey(SubSeq(es, 1, Len(es) - 1)))

\* ws.sort(...), keys[i] being the comparator's key of ws[i]
stableSort(ws, keys) ==
    LET sorted == sortByKey([i \in 1..Len(ws) |-> [key |-> keys[i], item |-> ws[i]]])
    IN  [i \in 1..Len(sorted) |-> sorted[i].item]

\* sort((a, b) => b.score - a.score)
sortByScoreDesc(ws) == stableSort(ws, [i \in 1..Len(ws) |-> 0 - ws[i].score])

\* sort((a, b) => a.startTime.getTime() - b.startTime.getTime())
sortByStartTime(ws) == stableSort(ws, [i \in 1..Len(ws) |-> ws[i].startTime])

isDaytimeScore(w) == w.score # NaN /\ w.score > 30

isNighttimeScore(w) == w.score # NaN /\ w.score <= 30

\* Mutant: the daytime windows stay in input order
daytimeWindowsUnsorted(windows) == SelectSeq(windows, isDaytimeScore)

daytimeWindows(windows) == sortByScoreDesc(SelectSeq(windows, isDaytimeScore))

\* Mutant: the nighttime windows stay in input order
nighttimeWindowsUnsorted(windows) == SelectSeq(windows, isNighttimeScore)

nighttimeWindows(windows) == sortByStartTime(SelectSeq(windows, isNighttimeScore))

\* Array.prototype.find, matches[i] being the predicate's value on element
\* i: the index of the first match, 0 when there is none
findIndex(matches) ==
    IF \E i \in 1..Len(matches) : matches[i]
    THEN CHOOSE i \in 1..Len(matches) : matches[i] /\ \A j \in 1..(i - 1) : ~matches[j]
    ELSE 0

containsNow(w, currentTime) == currentTime >= w.startTime /\ currentTime <= w.endTime

startsWithinNextHour(w, currentTime) ==
    w.startTime >= currentTime /\ w.startTime <= currentTime + HourMs

\* Mutant: the upcoming window is flagged whatever its score
goNowIndexNoThreshold(daytime, currentTime) ==
    LET goNow == findIndex([i \in 1..Len(daytime) |-> containsNow(daytime[i], currentTime)])
        upcoming ==
            findIndex([i \in 1..Len(daytime) |-> startsWithinNextHour(daytime[i], currentTime)])
    IN  IF goNow # 0 THEN goNow ELSE upcoming

\* Mutant: only the next-hour rule is applied, the search for now is lost
goNowIndexBest(daytime, currentTime) ==
    LET upcoming ==
            findIndex([i \in 1..Len(daytime) |-> startsWithinNextHour(daytime[i], currentTime)])
    IN  IF upcoming # 0 /\ daytime[upcoming].score >= 60 THEN upcoming ELSE 0

\* The index in the daytime list of the window to flag, 0 when none is flagged
goNowIndex(daytime, currentTime) ==
    LET goNow == findIndex([i \in 1..Len(daytime) |-> containsNow(daytime[i], currentTime)])
        upcoming ==
            findIndex([i \in 1..Len(daytime) |-> startsWithinNextHour(daytime[i], currentTime)])
    IN  IF goNow # 0 THEN goNow
        ELSE IF Len(daytime) > 0 /\ upcoming # 0 /\ daytime[upcoming].score >= 60
        THEN upcoming
        ELSE 0

\* Mutant: every window that holds now is flagged
markGoNowEvery(daytime, currentTime) ==
    [i \in 1..Len(daytime) |->
        IF containsNow(daytime[i], currentTime)
        THEN [daytime[i] EXCEPT !.isGoNow = TRUE] ELSE daytime[i]]

markGoNow(daytime, currentTime) ==
    LET k == goNowIndex(daytime, currentTime)
    IN  [i \in 1..Len(daytime) |->
            IF i = k THEN [daytime[i] EXCEPT !.isGoNow = TRUE] ELSE daytime[i]]

generateWindows(snapshots, opts0, currentTime) ==
    LET opts == mergeOptions(opts0)
        windows == collectWindows(snapshots, opts, currentTime)
    IN  markGoNow(daytimeWindows(windows), currentTime) \o nighttimeWindows(windows)

\* DEFAULT_WEIGHTS after generateWindows: the only access is through the
\* calls of calculateBeachScore, one per snapshot that is not skipped, all
\* with the same preferences.
weightsAfterWindows(snapshots, opts0, currentTime) ==
    LET opts == mergeOptions(opts0)
    IN  IF collectWindows(snapshots, opts, currentTime) = <<>>
        THEN defaultWeights
        ELSE weightsAfterScore(opts.preferences)

-----------------------------------------------------------------------------
(* Inputs of a generateWindows call                                        *)

\* The longest snapshot sequence handed to generateWindows
MaxLen == 2

HalfHourMs == 30 * 60 * 1000

\* new Date() at the call, and the forecast instants around it: one in the
\* past, one at the call instant, two within the next hour, one beyond it
Nows == {HalfHourMs}

Timestamps == {0, HalfHourMs, 2 * HalfHourMs, 3 * HalfHourMs, 4 * HalfHourMs}

\* Weather readings: BeachScore 100, 69, 45 and 24 under the default weights
Readings ==
    {[feelsLike |-> 85, uvIndex |-> 2, windSpeed |-> 3, windGust |-> Absent,
      tideType |-> "slack", weatherCode |-> <<"0", "1", "d">>, cloudCover |-> 10],
     [feelsLike |-> 72, uvIndex |-> 6, windSpeed |-> 12, windGust |-> Absent,
      tideType |-> "high", weatherCode |-> <<"0", "3", "d">>, cloudCover |-> 50],
     [feelsLike |-> 66, uvIndex |-> 9, windSpeed |-> 12, windGust |-> Some(18),
      tideType |-> "rising", weatherCode |-> <<"1", "0", "d">>, cloudCover |-> 90],
     [feelsLike |-> 50, uvIndex |-> 11, windSpeed |-> 30, windGust |-> Absent,
      tideType |-> "high", weatherCode |-> <<"1", "1", "d">>, cloudCover |-> 95]}

\* sunrise and sunset of the day of the call, as the caller fills them in:
\* neither, one of them, an early sunset, a late sunrise, a long day
SunTimes ==
    {[sunrise |-> Absent, sunset |-> Absent],
     [sunrise |-> Absent, sunset |-> Some(3 * HalfHourMs)],
     [sunrise |-> Some(8 * HalfHourMs), sunset |-> Absent],
     [sunrise |-> Some(0), sunset |-> Some(3 * HalfHourMs)],
     [sunrise |-> Some(8 * HalfHourMs), sunset |-> Some(40 * HalfHourMs)],
     [sunrise |-> Some(0), sunset |-> Some(40 * HalfHourMs)]}

Snapshot(timestamp, reading, sun) ==
    [timestamp |-> timestamp,
     feelsLike |-> reading.feelsLike, uvIndex |-> reading.uvIndex,
     windSpeed |-> reading.windSpeed, windGust |-> reading.windGust,
     tideType |-> reading.tideType, weatherCode |-> reading.weatherCode,
     cloudCover |-> reading.cloudCover,
     sunrise |-> sun.sunrise, sunset |-> sun.sunset]

SnapshotSeqs ==
    UNION {[1..n -> {Snapshot(t, r, sun) : t \in Timestamps, r \in Readings}] :
             n \in 0..MaxLen, sun \in SunTimes}

SwimPreferences ==
    [tempRange |-> Some([min |-> 70, max |-> 90]),
     windTolerance |-> Some(10),
     activityGoals |-> Some({"swim"})]

\* Partial<WindowOptions>
OptionValues ==
    [duration : {Absent, Some(1)},
     count : {Absent, Some(1), Some(2)},
     preferences : {Absent, Some(SwimPreferences)}]

-----------------------------------------------------------------------------
(* The state machine: one call of generateWindows                          *)

Init ==
    /\ conditions \in SnapshotSeqs
    /\ options \in OptionValues
    /\ now \in Nows
    /\ result = <<>>
    /\ pc = "call"
    /\ defaultWeights = DEFAULT_WEIGHTS
    /\ calls = <<>>
    /\ localStorage = <<>>

GenerateWindows ==
    /\ pc = "call"
    /\ result' = generateWindows(conditions, options, now)
    /\ pc' = "returned"
    /\ defaultWeights' = weightsAfterWindows(conditions, options, now)
    /\ UNCHANGED <<conditions, options, now, calls, localStorage>>

Next == GenerateWindows

Spec == Init /\ [][Next]_vars

-----------------------------------------------------------------------------
(* Properties of the returned window list                                  *)

Returned == pc = "returned"

Indices == 1..Len(result)

resolved == mergeOptions(options)

durationMs == resolved.duration * HourMs

\* The snapshots the loop visits and does not skip, by input position
Eligible ==
    {j \in 1..Len(conditions) :
        j <= resolved.count /\ ~(conditions[j].timestamp < now)}

engineScore(w) == calculateBeachScore(w.conditions, resolved.preferences).window.score

hasNighttimeBadge(w) == \E b \in 1..Len(w.badges) : w.badges[b].id = "nighttime"

\* now lies in [startTime, endTime] and the score is above the nighttime level
HoldsNow(w) == w.startTime <= now /\ now <= w.startTime + durationMs /\ w.score > 30

\* the window starts within the next 60 minutes
StartsSoon(w) == w.startTime >= now /\ w.startTime <= now + 60 * 60 * 1000

Flagged == {i \in Indices : result[i].isGoNow}

NowSet == {i \in Indices : HoldsNow(result[i])}

SoonGoodSet == {i \in Indices : StartsSoon(result[i]) /\ result[i].score >= 60}

\* C1 (as stated): start times are non-decreasing along the returned list.
C1_Chronological ==
    Returned =>
        \A i, j \in Indices : i < j => result[i].startTime <= result[j].startTime

\* C1 (amended): the windows with score <= 30 follow every window with
\* score > 30 and are in chronological order among themselves.
C1_LowScoresLastChronological ==
    Returned =>
        \A i, j \in Indices :
            (i < j /\ result[i].score <= 30) =>
                /\ result[j].score <= 30
                /\ result[i].startTime <= result[j].startTime

C1_Witness ==
    /\ Returned
    /\ Len(result) = 2
    /\ result[1].score <= 30
    /\ result[1].startTime < result[2].startTime
    /\ conditions[1].timestamp > conditions[2].timestamp

\* C2 (as stated): a window whose midpoint startTime + duration/2 lies before
\* the snapshot's sunrise or after its sunset has score 30 and the nighttime
\* badge.
C2_MidpointNighttime ==
    Returned =>
        \A i \in Indices :
            LET w == result[i]
                s == w.conditions
            IN  (/\ Present(s.sunrise)
                 /\ Present(s.sunset)
                 /\ \/ 2 * w.startTime + durationMs < 2 * Get(s.sunrise)
                    \/ 2 * w.startTime + durationMs > 2 * Get(s.sunset))
                => (w.score = 30 /\ hasNighttimeBadge(w))

\* C3 (as stated): every window with the nighttime badge has score 30.
C3_NighttimeScoreIs30 ==
    Returned => \A i \in Indices : hasNighttimeBadge(result[i]) => result[i].score = 30

\* C3 (amended): every window with the nighttime badge has the smaller of the
\* Score Engine's total and 30 as its score.
C3_NighttimeScoreCapped ==
    Returned =>
        \A i \in Indices :
            hasNighttimeBadge(result[i]) =>
                result[i].score = Min(engineScore(result[i]), 30)

C3_Witness ==
    /\ Returned
    /\ \E i, j \in Indices :
          /\ hasNighttimeBadge(result[i]) /\ engineScore(result[i]) < 30
          /\ hasNighttimeBadge(result[j]) /\ engineScore(result[j]) > 30

\* C4: at most one returned window has isGoNow = TRUE.
C4_AtMostOneGoNow == Returned => Cardinality(Flagged) <= 1

C4_Witness ==
    /\ Returned
    /\ Cardinality(NowSet) = 2
    /\ Cardinality(Flagged) = 1

\* C5: when some returned window holds now in its interval with score > 30,
\* exactly one window is flagged, it is such a window, and no such window
\* starts earlier.
C5_GoNowPrimary ==
    Returned =>
        (NowSet # {} =>
            /\ Cardinality(Flagged) = 1
            /\ Flagged \subseteq NowSet
            /\ \A k \in Flagged : \A j \in NowSet :
                  result[k].startTime <= result[j].startTime)

C5_Witness ==
    /\ Returned
    /\ Len(result) = 2
    /\ 1 \notin NowSet /\ StartsSoon(result[1]) /\ result[1].score >= 60
    /\ 2 \in NowSet
    /\ Flagged = {2}

\* C6 (as stated): when no window holds now with score > 30 and some window
\* starts within the next 60 minutes with score >= 60, a flagged window is
\* the earliest of those.
C6_FallbackEarliest ==
    Returned =>
        ((NowSet = {} /\ SoonGoodSet # {}) =>
            \E k \in Flagged :
                /\ k \in SoonGoodSet
                /\ \A j \in SoonGoodSet : result[k].startTime <= result[j].startTime)

\* C6 (amended): in that case exactly one window is flagged, it starts within
\* the next 60 minutes with score >= 60, and no window starting within the
\* next 60 minutes has a higher score.
C6_FallbackBest ==
    Returned =>
        ((NowSet = {} /\ SoonGoodSet # {}) =>
            /\ Cardinality(Flagged) = 1
            /\ Flagged \subseteq SoonGoodSet
            /\ \A k \in Flagged : \A j \in Indices :
                  StartsSoon(result[j]) => result[j].score <= result[k].score)

C6_Witness ==
    /\ Returned
    /\ NowSet = {}
    /\ Cardinality(SoonGoodSet) = 2
    /\ \E k \in Flagged : \E j \in SoonGoodSet :
          /\ result[j].startTime < result[k].startTime
          /\ result[j].score < result[k].score
          /\ \E a, b \in 1..Len(conditions) :
                a < b /\ conditions[a] = result[j].conditions
                      /\ conditions[b] = result[k].conditions

\* C7: a flagged window holds now with score > 30, or starts within the next
\* 60 minutes with score >= 60; with no such window nothing is flagged.
C7_GoNowSound ==
    Returned =>
        /\ \A i \in Flagged :
              \/ HoldsNow(result[i])
              \/ StartsSoon(result[i]) /\ result[i].score >= 60
        /\ (NowSet = {} /\ SoonGoodSet = {}) => Flagged = {}

C7_Witness ==
    /\ Returned
    /\ Len(result) = 2
    /\ Flagged = {}
    /\ \E i \in Indices : StartsSoon(result[i]) /\ result[i].score > 30
    /\ \E i \in Indices : ~StartsSoon(result[i]) /\ result[i].score >= 60

C10_NoSunNoSuppression ==
    Returned =>
        \A i \in Indices :
            LET w == result[i]
                s == w.conditions
                scored == calculateBeachScore(s, resolved.preferences).window
            IN  (~Present(s.sunrise) \/ ~Present(s.sunset)) =>
                    /\ w.score = scored.score
                    /\ w.badges = scored.badges
                    /\ ~hasNighttimeBadge(w)

C10_Witness ==
    /\ Returned
    /\ \E i \in Indices :
          LET w == result[i]
              s == w.conditions
          IN  /\ ~Present(s.sunrise)
              /\ Present(s.sunset)
              /\ w.startTime >= Get(s.sunset)
              /\ w.score > 30

-----------------------------------------------------------------------------
(* Inputs of a calculateBeachScore call                                    *)

\* The reading of the reference scenario: a warm, calm, clear day
ReferenceReading ==
    [feelsLike |-> 85, uvIndex |-> 4, windSpeed |-> 7, windGust |-> Absent,
     tideType |-> "slack", weatherCode |-> <<"0", "1", "d">>, cloudCover |-> 10]

IconCodes ==
    {<<a[1], a[2], b>> :
        a \in {<<"0", "1">>, <<"0", "2">>, <<"0", "3">>, <<"0", "4">>, <<"0", "9">>,
               <<"1", "0">>, <<"1", "1">>, <<"1", "3">>, <<"5", "0">>},
        b \in {"d", "n"}}

\* Icon codes of OpenWeather, and strings that are none: a known family with
\* another suffix or with none, an unknown family
WeatherCodes == IconCodes \cup {<<"0", "1", "x">>, <<"0", "2">>, <<"9", "9", "d">>}

\* The reference reading with one quantity swept over its range at a time,
\* and the readings used for the windows
ScoreReadings ==
    {[ReferenceReading EXCEPT !.feelsLike = t] : t \in 55..105}
    \cup {[ReferenceReading EXCEPT !.uvIndex = u] : u \in 0..13}
    \cup {[ReferenceReading EXCEPT !.windSpeed = w, !.windGust = g] :
            w \in 0..31, g \in {Absent, Some(0), Some(12), Some(18), Some(30)}}
    \cup {[ReferenceReading EXCEPT !.tideType = t] :
            t \in {"slack", "low", "rising", "falling", "high", "ebb"}}
    \cup {[ReferenceReading EXCEPT !.weatherCode = c, !.cloudCover = k] :
            c \in WeatherCodes, k \in {10, 75, 76, 90}}
    \cup Readings

\* UserPreferences as the engine reads them: each field may be missing
PreferenceValues ==
    [tempRange : {Absent, Some([min |-> 70, max |-> 90]), Some([min |-> 75, max |-> 90]),
                  Some([min |-> 80, max |-> 80])},
     windTolerance : {Absent, Some(10)},
     activityGoals : {Absent, Some({}), Some({"photography"}), Some({"swim"}),
                      Some({"photography", "swim"})}]

-----------------------------------------------------------------------------
(* The state machine: one call of calculateBeachScore.  conditions holds   *)
(* the one snapshot, options only the preferences, result the ScoredWindow *)

ScoreInit ==
    /\ conditions \in
          {<<Snapshot(0, r, [sunrise |-> Absent, sunset |-> Absent])>> : r \in ScoreReadings}
    /\ options \in
          [duration : {Absent}, count : {Absent},
           preferences : {Absent} \cup {Some(p) : p \in PreferenceValues}]
    /\ now = 0
    /\ result = <<>>
    /\ pc = "score"
    /\ defaultWeights = DEFAULT_WEIGHTS
    /\ calls = <<>>
    /\ localStorage = <<>>

CalculateBeachScore ==
    /\ pc = "score"
    /\ result' = <<calculateBeachScore(conditions[1], options.preferences)>>
    /\ pc' = "scored"
    /\ defaultWeights' = weightsAfterScore(options.preferences)
    /\ UNCHANGED <<conditions, options, now, calls, localStorage>>

ScoreNext == CalculateBeachScore

ScoreSpec == ScoreInit /\ [][ScoreNext]_vars

-----------------------------------------------------------------------------
(* Properties of the ScoredWindow                                          *)

Scored == pc = "scored"

snapshot == conditions[1]

preferences == options.preferences

breakdown == result[1].scoreBreakdown

C12_ScoresInRange ==
    Scored =>
        /\ breakdown.tempScore.den > 0
        /\ breakdown.tempScore.num >= 0
        /\ breakdown.tempScore.num <= 100 * breakdown.tempScore.den
        /\ breakdown.uvScore \in 0..100
        /\ breakdown.windScore \in 0..100
        /\ breakdown.tideScore \in 0..100
        /\ breakdown.weatherScore \in 0..100
        /\ breakdown.totalScore \in 0..100
        /\ result[1].window.score \in 0..100

\* The weighted sum of the five sub-scores as the fraction sumNum / sumDen
sumNum ==
    breakdown.tempScore.num * breakdown.weights.temp
    + breakdown.tempScore.den
        * (breakdown.uvScore * breakdown.weights.uv
           + breakdown.windScore * breakdown.weights.wind
           + breakdown.tideScore * breakdown.weights.tide
           + breakdown.weatherScore * breakdown.weights.weather)

sumDen == breakdown.tempScore.den * breakdown.weights.den

\* C13: the total is the weighted sum of the five sub-scores rounded to the
\* nearest integer, halves up (total - 1/2 <= sum < total + 1/2), under
\* the weights 0.30/0.25/0.25/0.10/0.10 without preferences and under the
\* customized, renormalized weights with them; the window's score is that
\* total.  A sum that is not a number gives a total that is not a number.
C13_TotalIsRoundedWeightedSum ==
    Scored =>
        /\ breakdown.weights =
              (IF Present(preferences) THEN customizeWeights(Get(preferences))
               ELSE [temp |-> 30, uv |-> 25, wind |-> 25, tide |-> 10, weather |-> 10,
                     den |-> 100])
        /\ result[1].window.score = breakdown.totalScore
        /\ IF sumDen = 0 THEN breakdown.totalScore = NaN
           ELSE /\ (2 * breakdown.totalScore - 1) * sumDen <= 2 * sumNum
                /\ 2 * sumNum < (2 * breakdown.totalScore + 1) * sumDen

C13_Witness ==
    /\ Scored
    /\ Present(preferences)
    /\ breakdown.weights.den = 105
    /\ breakdown.tempScore.den > 1
    /\ breakdown.tempScore.num % breakdown.tempScore.den # 0
    /\ 2 * sumNum > 2 * breakdown.totalScore * sumDen

\* The reference scenario: feelsLike 85, uvIndex 4, windSpeed 7 without gust,
\* slack tide, code 01d, cloudCover 10, no preferences
IsReferenceScenario ==
    /\ Scored
    /\ ~Present(preferences)
    /\ snapshot = Snapshot(0, ReferenceReading, [sunrise |-> Absent, sunset |-> Absent])

\* C14 (as stated): the reference scenario yields sub-scores 100, 100, 90, 100,
\* 100 (temperature, UV, wind, tide, weather) and total 98.
C14_ReferenceScenario ==
    IsReferenceScenario =>
        /\ breakdown.tempScore = Whole(100)
        /\ breakdown.uvScore = 100
        /\ breakdown.windScore = 90
        /\ breakdown.tideScore = 100
        /\ breakdown.weatherScore = 100
        /\ breakdown.totalScore = 98

\* C14 (amended): the reference scenario yields sub-scores 100, 80, 90, 100,
\* 100 and total round(92.5) = 93.
C14_ReferenceScenarioUV80 ==
    IsReferenceScenario =>
        /\ breakdown.tempScore = Whole(100)
        /\ breakdown.uvScore = 80
        /\ breakdown.windScore = 90
        /\ breakdown.tideScore = 100
        /\ breakdown.weatherScore = 100
        /\ breakdown.totalScore = 93
        /\ result[1].window.score = 93

C14_Witness == IsReferenceScenario /\ 2 * sumNum = 185 * sumDen

\* windGust if it exceeds windSpeed by more than 5, else windSpeed
effectiveWind ==
    IF Present(snapshot.windGust) /\ Get(snapshot.windGust) > snapshot.windSpeed + 5
    THEN Get(snapshot.windGust)
    ELSE snapshot.windSpeed

hasWindTolerance ==
    Present(preferences) /\ Present(Get(preferences).windTolerance)

\* C15 (as stated): with a windTolerance in the preferences, an effective wind
\* above it gives wind sub-score 20.
C15_UserToleranceCeiling ==
    (Scored /\ hasWindTolerance /\ effectiveWind > Get(Get(preferences).windTolerance))
        => breakdown.windScore = 20

\* The step table of the wind sub-score
windStep(wind) ==
    IF wind < 5 THEN 100
    ELSE IF wind < 10 THEN 90
    ELSE IF wind < 15 THEN 70
    ELSE IF wind < 20 THEN 50
    ELSE IF wind < 25 THEN 30
    ELSE 20

\* C16: without a user tolerance the wind sub-score is the step table applied
\* to the effective wind, 20 above 25, and no stronger sustained wind without
\* gust scores higher.
C16_WindStepOfEffectiveWind ==
    (Scored /\ ~hasWindTolerance) =>
        /\ breakdown.windScore = windStep(effectiveWind)
        /\ effectiveWind > 25 => breakdown.windScore = 20
        /\ \A stronger \in 0..40 :
              stronger >= effectiveWind =>
                  calculateWindScore(stronger, Absent, Absent) <= breakdown.windScore

C16_Witness ==
    /\ Scored
    /\ ~hasWindTolerance
    /\ snapshot.windSpeed = 22
    /\ snapshot.windGust = Some(30)
    /\ breakdown.windScore = 20

\* The step table of the UV sub-score
uvStep(uvIndex) ==
    IF uvIndex <= 2 THEN 100
    ELSE IF uvIndex <= 5 THEN 80
    ELSE IF uvIndex <= 7 THEN 60
    ELSE IF uvIndex <= 10 THEN 40
    ELSE 20

\* C17: the UV sub-score is the step table applied to uvIndex, and no higher
\* uvIndex scores higher.
C17_UVStep ==
    Scored =>
        /\ breakdown.uvScore = uvStep(snapshot.uvIndex)
        /\ \A higher \in 0..15 :
              higher >= snapshot.uvIndex => calculateUVScore(higher) <= breakdown.uvScore

C17_Witness ==
    /\ Scored
    /\ snapshot.uvIndex = 9
    /\ breakdown.uvScore = 40

\* The default temperature bands, first match wins
tempBand(t) ==
    IF 80 <= t /\ t <= 90 THEN 100
    ELSE IF 75 <= t /\ t < 80 THEN 100 - 2 * (80 - t)
    ELSE IF 90 < t /\ t <= 95 THEN 100 - 2 * (t - 90)
    ELSE IF 70 <= t /\ t <= 98 THEN 70
    ELSE IF 65 <= t /\ t <= 100 THEN 40
    ELSE 20

\* the temperature sub-score is the whole number n
tempScoreIs(n) ==
    /\ breakdown.tempScore.den > 0
    /\ breakdown.tempScore.num = n * breakdown.tempScore.den

\* C18: without preferences the temperature sub-score is the first matching
\* default band of feelsLike.
C18_DefaultTempBands ==
    (Scored /\ ~Present(preferences)) => tempScoreIs(tempBand(snapshot.feelsLike))

C18_Witness ==
    /\ Scored
    /\ ~Present(preferences)
    /\ snapshot.feelsLike = 77
    /\ tempScoreIs(94)

hasTempRange ==
    Present(preferences) /\ Present(Get(preferences).tempRange)

tempRange == Get(Get(preferences).tempRange)

\* C19: with a tempRange whose min is below its max, the temperature sub-score
\* inside the range is the linear interpolation between 80 at either edge and
\* 100 at the midpoint; below min it is max(0, 80 - 10 * (min - feelsLike)),
\* above max it is max(0, 80 - 10 * (feelsLike - max)).
C19_PreferredRangeTempScore ==
    (Scored /\ hasTempRange /\ tempRange.min < tempRange.max) =>
        LET t == snapshot.feelsLike
            s == breakdown.tempScore
            range == tempRange.max - tempRange.min
        IN  /\ (tempRange.min <= t /\ t <= tempRange.max) =>
                  /\ s.den > 0
                  /\ s.num * range
                       = s.den * (80 * range + 40 * Min(t - tempRange.min, tempRange.max - t))
            /\ 2 * t = tempRange.min + tempRange.max => tempScoreIs(100)
            /\ t \in {tempRange.min, tempRange.max} => tempScoreIs(80)
            /\ t < tempRange.min => tempScoreIs(Max(0, 80 - 10 * (tempRange.min - t)))
            /\ t > tempRange.max => tempScoreIs(Max(0, 80 - 10 * (t - tempRange.max)))

C19_Witness ==
    /\ Scored
    /\ hasTempRange
    /\ tempRange = [min |-> 75, max |-> 90]
    /\ snapshot.feelsLike = 80
    /\ breakdown.tempScore.den > 0
    /\ 3 * breakdown.tempScore.num = 280 * breakdown.tempScore.den

\* Base weather score of a two-character family, 50 for an unknown family
familyBase(family) ==
    CASE family = <<"0", "1">> -> 100
      [] family = <<"0", "2">> -> 90
      [] family = <<"0", "3">> -> 80
      [] family = <<"0", "4">> -> 70
      [] family = <<"0", "9">> -> 30
      [] family = <<"1", "0">> -> 20
      [] family = <<"1", "1">> -> 10
      [] family = <<"1", "3">> -> 40
      [] family = <<"5", "0">> -> 60
      [] OTHER -> 50

cloudAdjusted(base) ==
    IF snapshot.cloudCover > 75 /\ base > 70 THEN base - 10 ELSE base

\* C20 (as stated): the weather sub-score is the base of the first two
\* characters of weatherCode, 50 for an unknown family, less 10 exactly when
\* cloudCover > 75 and the base is above 70.
C20_WeatherByPrefix ==
    Scored =>
        breakdown.weatherScore = cloudAdjusted(familyBase(SubSeq(snapshot.weatherCode, 1, 2)))

\* a two-digit family followed by d or n
isIconCode(code) ==
    /\ Len(code) = 3
    /\ code[3] \in {"d", "n"}
    /\ familyBase(SubSeq(code, 1, 2)) # 50

\* C20 (amended): the base is that of the family only when weatherCode is a
\* whole icon code (family followed by d or n); any other code has base 50;
\* 10 is subtracted exactly when cloudCover > 75 and the base is above 70.
C20_WeatherByIconCode ==
    Scored =>
        LET base == IF isIconCode(snapshot.weatherCode)
                    THEN familyBase(SubSeq(snapshot.weatherCode, 1, 2))
                    ELSE 50
        IN  breakdown.weatherScore = cloudAdjusted(base)

C20_Witness ==
    /\ Scored
    /\ snapshot.weatherCode = <<"0", "1", "x">>
    /\ snapshot.cloudCover = 10
    /\ breakdown.weatherScore = 50

-----------------------------------------------------------------------------
(* Badges                                                                  *)

\* The badge ids of each category (beach-score.ts generateBadges)
BadgeCategories ==
    {{"temp-perfect", "temp-cold", "temp-hot"},
     {"uv-low", "uv-high", "uv-moderate"},
     {"wind-calm", "wind-strong"},
     {"tide-good"},
     {"weather-clear", "weather-rain", "weather-storm"}}

badgeCount(badges, ids) == Cardinality({b \in 1..Len(badges) : badges[b].id \in ids})

\* at most one badge per category, nothing else, ids pairwise distinct
oneBadgePerCategory(badges) ==
    /\ Len(badges) <= 5
    /\ \A ids \in BadgeCategories : badgeCount(badges, ids) <= 1
    /\ \A b \in 1..Len(badges) : badges[b].id \in UNION BadgeCategories
    /\ \A b, c \in 1..Len(badges) : badges[b].id = badges[c].id => b = c

engineBadges(w) == calculateBeachScore(w.conditions, resolved.preferences).window.badges

\* C21: the Score Engine attaches at most one badge of each of the five
\* categories, so 0 to 5 badges with distinct ids; a returned window has at
\* most 6 badges, at most one of them the nighttime badge.
C21_OneBadgePerCategory ==
    Returned =>
        \A i \in Indices :
            /\ oneBadgePerCategory(engineBadges(result[i]))
            /\ Len(result[i].badges) <= 6
            /\ badgeCount(result[i].badges, {"nighttime"}) <= 1
            /\ \A ids \in BadgeCategories : badgeCount(result[i].badges, ids) <= 1

C21_Witness ==
    /\ Returned
    /\ \E i \in Indices :
          /\ Len(engineBadges(result[i])) = 5
          /\ Len(result[i].badges) = 6
          /\ hasNighttimeBadge(result[i])
    /\ \E i \in Indices : Len(result[i].badges) < 5

-----------------------------------------------------------------------------
(* The state machine: a session of calls.  Any number of generateWindows   *)
(* calls and up to MaxCalls logged calculateBeachScore calls, in any       *)
(* order, all reading the same DEFAULT_WEIGHTS object.                     *)

MaxCalls == 3

NoSun == [sunrise |-> Absent, sunset |-> Absent]

\* Two snapshots half an hour after the call instant, scoring 69 and 45 under
\* the default weights
SessionSnapshots ==
    {Snapshot(2 * HalfHourMs, r, NoSun) : r \in {r \in Readings : r.uvIndex \in {6, 9}}}

PhotoPreferences ==
    [tempRange |-> Absent, windTolerance |-> Absent, activityGoals |-> Some({"photography"})]

SessionPreferences == {Absent, Some(PhotoPreferences), Some(SwimPreferences)}

SessionSnapshotSeqs == {<<>>} \cup {<<s>> : s \in SessionSnapshots}

SessionInit ==
    /\ conditions = <<>>
    /\ options = [duration |-> Absent, count |-> Absent, preferences |-> Absent]
    /\ now \in Nows
    /\ result = <<>>
    /\ pc = "idle"
    /\ defaultWeights = DEFAULT_WEIGHTS
    /\ calls = <<>>
    /\ localStorage = <<>>

SessionScore ==
    /\ Len(calls) < MaxCalls
    /\ \E s \in SessionSnapshots, p \in SessionPreferences :
          /\ conditions' = <<s>>
          /\ options' = [duration |-> Absent, count |-> Absent, preferences |-> p]
          /\ result' = <<calculateBeachScore(s, p)>>
          /\ calls' = Append(calls, [snapshot |-> s, preferences |-> p,
                                     returned |-> calculateBeachScore(s, p)])
          /\ defaultWeights' = weightsAfterScore(p)
    /\ pc' = "scored"
    /\ UNCHANGED <<now, localStorage>>

SessionWindows ==
    /\ \E snapshots \in SessionSnapshotSeqs, p \in SessionPreferences :
          /\ conditions' = snapshots
          /\ options' = [duration |-> Absent, count |-> Absent, preferences |-> p]
          /\ result' = generateWindows(snapshots, options', now)
          /\ defaultWeights' = weightsAfterWindows(snapshots, options', now)
    /\ pc' = "returned"
    /\ UNCHANGED <<now, calls, localStorage>>

SessionNext == SessionScore \/ SessionWindows

SessionSpec == SessionInit /\ [][SessionNext]_vars

-----------------------------------------------------------------------------
(* Properties of a session                                                 *)

CallIndices == 1..Len(calls)

sameInputs(i, j) ==
    /\ calls[i].snapshot = calls[j].snapshot
    /\ calls[i].preferences = calls[j].preferences

\* C22: two calls of calculateBeachScore with identical snapshot and
\* preferences return identical sub-scores, weights, total score and badges,
\* whatever calls were made in between.
C22_SameInputsSameResult ==
    \A i, j \in CallIndices :
        sameInputs(i, j) => calls[i].returned = calls[j].returned

C22_Witness ==
    /\ Len(calls) = 3
    /\ sameInputs(1, 3)
    /\ ~Present(calls[1].preferences)
    /\ Present(calls[2].preferences)
    /\ calls[1].returned = calls[3].returned

-----------------------------------------------------------------------------
(* Further properties of the ScoredWindow                                  *)

windScoreAt(windSpeed) ==
    calculateBeachScore([snapshot EXCEPT !.windSpeed = windSpeed], preferences)
        .scoreBreakdown.windScore

\* C27 (as stated): with windGust and every other field fixed, a lower
\* sustained windSpeed never has a lower wind sub-score.
C27_WindScoreMonotone ==
    Scored =>
        \A lower \in 0..snapshot.windSpeed : windScoreAt(lower) >= breakdown.windScore

hasBadge(id) ==
    \E b \in 1..Len(result[1].window.badges) : result[1].window.badges[b].id = id

\* C28 (as stated): a scored window with the wind-calm badge has wind
\* sub-score 100, with or without a windGust.
C28_CalmBadgeMeansFullWindScore ==
    (Scored /\ hasBadge("wind-calm")) => breakdown.windScore = 100

\* C29 (as stated): with a tempRange whose min equals its max, the temperature
\* sub-score and the total score are numbers within 0..100.
C29_SinglePointRangeDefined ==
    (Scored /\ hasTempRange /\ tempRange.min = tempRange.max) =>
        /\ breakdown.tempScore.den > 0
        /\ 0 <= breakdown.tempScore.num
        /\ breakdown.tempScore.num <= 100 * breakdown.tempScore.den
        /\ breakdown.totalScore # NaN
        /\ breakdown.totalScore \in 0..100

documentedDefaults ==
    [temp |-> 30, uv |-> 25, wind |-> 25, tide |-> 10, weather |-> 10]

\* C26: after every sequence of calculateBeachScore and generateWindows
\* calls, with any preferences, DEFAULT_WEIGHTS still holds temp 0.30,
\* uv 0.25, wind 0.25, tide 0.10, weather 0.10, and every call without
\* preferences has used exactly these weights.
C26_DefaultWeightsUntouched ==
    /\ defaultWeights = documentedDefaults
    /\ \A i \in CallIndices :
          ~Present(calls[i].preferences) =>
              calls[i].returned.scoreBreakdown.weights = WeightSet(documentedDefaults, 100)

C26_Witness ==
    /\ \E i, j \in CallIndices :
          /\ i < j
          /\ Present(calls[i].preferences)
          /\ ~Present(calls[j].preferences)
          /\ calls[j].returned.scoreBreakdown.weights = WeightSet(documentedDefaults, 100)
    /\ pc = "returned"
    /\ Present(options.preferences)
    /\ result # <<>>
    /\ defaultWeights = documentedDefaults

-----------------------------------------------------------------------------
(* Further properties of the returned window list                          *)

\* C23 (as stated): scores are non-increasing along the returned list, so the
\* first window has the maximum score of the list.
C23_BestScoreFirst ==
    Returned =>
        /\ \A i, j \in Indices : i < j => result[i].score >= result[j].score
        /\ \A i \in Indices : result[1].score >= result[i].score

midpointAtNight(w) ==
    /\ Present(w.conditions.sunrise)
    /\ Present(w.conditions.sunset)
    /\ \/ 2 * w.startTime + durationMs < 2 * Get(w.conditions.sunrise)
       \/ 2 * w.startTime + durationMs > 2 * Get(w.conditions.sunset)

\* C25: every returned window with the nighttime badge comes from a snapshot
\* that has both sunrise and sunset, and its midpoint is before the sunrise
\* or after the sunset.
C25_NighttimeOnlyAtNight ==
    Returned => \A i \in Indices : hasNighttimeBadge(result[i]) => midpointAtNight(result[i])

C25_Witness ==
    /\ Returned
    /\ \E i \in Indices : hasNighttimeBadge(result[i]) /\ midpointAtNight(result[i])
    /\ \E i \in Indices :
          /\ ~hasNighttimeBadge(result[i])
          /\ Present(result[i].conditions.sunrise)
          /\ Present(result[i].conditions.sunset)
          /\ ~midpointAtNight(result[i])

-----------------------------------------------------------------------------
(* weights.ts: SCORE_RANGES and getScoreRange                              *)

ScoreRange(min, max, label, verdict) ==
    [min |-> min, max |-> max, label |-> label, verdict |-> verdict]

SCORE_RANGES ==
    <<ScoreRange(90, 100, "Perfect", "Go now! Perfect beach day!"),
      ScoreRange(80, 89, "Excellent", "Go now! Excellent conditions."),
      ScoreRange(70, 79, "Good", "Pretty good - bring sunscreen!"),
      ScoreRange(60, 69, "Fair", "Okay day, check conditions."),
      ScoreRange(40, 59, "Marginal", "Not ideal, but doable."),
      ScoreRange(0, 39, "Poor", "Maybe tomorrow?")>>

\* SCORE_RANGES.find(score >= min && score <= max) || the last range
getScoreRange(score) ==
    LET matching == {k \in 1..Len(SCORE_RANGES) :
                        score >= SCORE_RANGES[k].min /\ score <= SCORE_RANGES[k].max}
    IN  IF matching # {}
        THEN SCORE_RANGES[CHOOSE k \in matching : \A m \in matching : k <= m]
        ELSE SCORE_RANGES[Len(SCORE_RANGES)]

\* The integer scores a score card can be given
Scores == 0..100

\* The state machine: one call of getScoreRange for the window of a score
\* card, of which only the score is read
RangeInit ==
    /\ conditions = <<>>
    /\ options = [duration |-> Absent, count |-> Absent, preferences |-> Absent]
    /\ now = 0
    /\ result \in {<<[score |-> n]>> : n \in Scores}
    /\ pc = "card"
    /\ defaultWeights = DEFAULT_WEIGHTS
    /\ calls = <<>>
    /\ localStorage = <<>>

GetScoreRange ==
    /\ pc = "card"
    /\ result' = <<[score |-> result[1].score,
                    scoreRange |-> getScoreRange(result[1].score)]>>
    /\ pc' = "ranged"
    /\ UNCHANGED <<conditions, options, now, defaultWeights, calls, localStorage>>

RangeNext == GetScoreRange

RangeSpec == RangeInit /\ [][RangeNext]_vars

Ranged == pc = "ranged"

\* C24 (as stated): a score of 80 to 100 gets a 'go now' verdict, 60 to 79
\* 'pretty good', 40 to 59 'okay', 0 to 39 'maybe tomorrow'.
C24_DocumentedRanges ==
    Ranged =>
        LET score == result[1].score
            verdict == result[1].scoreRange.verdict
        IN  /\ (80 <= score /\ score <= 100) =>
                  verdict \in {"Go now! Perfect beach day!", "Go now! Excellent conditions."}
            /\ (60 <= score /\ score <= 79) => verdict = "Pretty good - bring sunscreen!"
            /\ (40 <= score /\ score <= 59) => verdict = "Okay day, check conditions."
            /\ (0 <= score /\ score <= 39) => verdict = "Maybe tomorrow?"

-----------------------------------------------------------------------------
(* storage.ts: the localStorage wrapper                                    *)

\* Keys are tuples of their parts, so that `${CHECKLIST}-${planId}` is the
\* CHECKLIST key followed by "-" and the planId.
STORAGE_KEYS ==
    [FAVORITES |-> <<"beach-buddy-favorites">>,
     PREFERENCES |-> <<"beach-buddy-preferences">>,
     RECENT_BEACHES |-> <<"beach-buddy-recent">>,
     CHECKLIST |-> <<"beach-buddy-checklist">>]

\* JSON.stringify and JSON.parse: the item is the text of the value
JSONstringify(data) == [json |-> data]

JSONparse(item) == item.json

\* localStorage.setItem(key, JSON.stringify(data))
saveToStorage(store, key, data) ==
    [k \in DOMAIN store \cup {key} |-> IF k = key THEN JSONstringify(data) ELSE store[k]]

\* item ? JSON.parse(item) : defaultValue
loadFromStorage(store, key, defaultValue) ==
    IF key \in DOMAIN store THEN JSONparse(store[key]) ELSE defaultValue

\* localStorage.removeItem(key)
removeFromStorage(store, key) == [k \in DOMAIN store \ {key} |-> store[k]]

\* Object.values(STORAGE_KEYS).forEach(removeFromStorage)
clearAllStorage(store) ==
    removeFromStorage(
        removeFromStorage(
            removeFromStorage(
                removeFromStorage(store, STORAGE_KEYS.FAVORITES),
                STORAGE_KEYS.PREFERENCES),
            STORAGE_KEYS.RECENT_BEACHES),
        STORAGE_KEYS.CHECKLIST)

checklistKey(planId) == STORAGE_KEYS.CHECKLIST \o <<"-", planId>>

saveFavorites(store, beachIds) == saveToStorage(store, STORAGE_KEYS.FAVORITES, beachIds)

loadFavorites(store) == loadFromStorage(store, STORAGE_KEYS.FAVORITES, <<>>)

savePreferences(store, prefs) == saveToStorage(store, STORAGE_KEYS.PREFERENCES, prefs)

\* null, the default of loadPreferences
Null == [null |-> TRUE]

loadPreferences(store) == loadFromStorage(store, STORAGE_KEYS.PREFERENCES, Null)

\* beachIds.slice(0, 5) is stored
saveRecentBeaches(store, beachIds) ==
    saveToStorage(store, STORAGE_KEYS.RECENT_BEACHES, SubSeq(beachIds, 1, Min(5, Len(beachIds))))

loadRecentBeaches(store) == loadFromStorage(store, STORAGE_KEYS.RECENT_BEACHES, <<>>)

saveChecklist(store, planId, checklist) == saveToStorage(store, checklistKey(planId), checklist)

loadChecklist(store, planId) == loadFromStorage(store, checklistKey(planId), <<>>)

\* Inputs of the storage calls
BeachIdLists == {<<>>, <<"b1">>, <<"b1", "b2", "b3", "b4", "b5", "b6">>}

StoredPreferences == {[units |-> "F"], [units |-> "C"]}

PlanIds == {"plan-1", "plan-2"}

Checklists == {<<>>, <<"towel">>}

\* The state machine: a browser session that saves and then clears
StorageInit ==
    /\ conditions = <<>>
    /\ options = [duration |-> Absent, count |-> Absent, preferences |-> Absent]
    /\ now = 0
    /\ result = <<>>
    /\ pc = "saving"
    /\ defaultWeights = DEFAULT_WEIGHTS
    /\ calls = <<>>
    /\ localStorage = <<>>

SaveFavorites ==
    /\ pc = "saving"
    /\ \E beachIds \in BeachIdLists : localStorage' = saveFavorites(localStorage, beachIds)
    /\ UNCHANGED <<conditions, options, now, result, pc, defaultWeights, calls>>

SavePreferences ==
    /\ pc = "saving"
    /\ \E prefs \in StoredPreferences : localStorage' = savePreferences(localStorage, prefs)
    /\ UNCHANGED <<conditions, options, now, result, pc, defaultWeights, calls>>

SaveRecentBeaches ==
    /\ pc = "saving"
    /\ \E beachIds \in BeachIdLists : localStorage' = saveRecentBeaches(localStorage, beachIds)
    /\ UNCHANGED <<conditions, options, now, result, pc, defaultWeights, calls>>

SaveChecklist ==
    /\ pc = "saving"
    /\ \E planId \in PlanIds, checklist \in Checklists :
          localStorage' = saveChecklist(localStorage, planId, checklist)
    /\ UNCHANGED <<conditions, options, now, result, pc, defaultWeights, calls>>

ClearAllStorage ==
    /\ pc = "saving"
    /\ localStorage' = clearAllStorage(localStorage)
    /\ pc' = "cleared"
    /\ UNCHANGED <<conditions, options, now, result, defaultWeights, calls>>

StorageNext ==
    \/ SaveFavorites
    \/ SavePreferences
    \/ SaveRecentBeaches
    \/ SaveChecklist
    \/ ClearAllStorage

StorageSpec == StorageInit /\ [][StorageNext]_vars

\* C30 (as stated): after clearAllStorage, loadFavorites returns [],
\* loadPreferences null, loadRecentBeaches [] and loadChecklist(planId) []
\* for every planId.
C30_ClearRemovesEverything ==
    pc = "cleared" =>
        /\ loadFavorites(localStorage) = <<>>
        /\ loadPreferences(localStorage) = Null
        /\ loadRecentBeaches(localStorage) = <<>>
        /\ \A planId \in PlanIds : loadChecklist(localStorage, planId) = <<>>

====
